---- MODULE Spec2Model ----
(***************************************************************************)
(* Model of the GPU exporter's collector (src/main.go): Collector.Collect, *)
(* the gauge vectors it resets, fills and sends, the merge of the two      *)
(* per-process lists and the parse of a process display name into the      *)
(* (container, namespace, pod) labels.                                     *)
(***************************************************************************)
EXTENDS Integers, Sequences, FiniteSets, TLC

\* ------------------------------------------------------------ bounds
NumCallers == 2      \* concurrent callers of Collect
MaxDevices == 2      \* largest device count the driver reports
MaxProcs == 1        \* pids 1..MaxProcs may hold a graphics context on a device
MaxUtilLen == 1      \* longest utilization list the driver returns to a pass
MergeMaxPid == 2     \* pids 1..MergeMaxPid in the memory list given to the merge alone
MergeMaxMem == 2     \* longest memory list given to the merge alone
MergeMaxUtil == 2    \* longest utilization list given to the merge alone
MaxNameLen == 3      \* longest display name given to the parse alone

Callers == 1..NumCallers

\* ------------------------------------------------------------ strings
\* A display name is a sequence of one-character strings.

\* strings.Index(s, ch): the 0-based index of the first ch in s, or -1.
Index(s, ch) ==
    IF \E i \in 1..Len(s) : s[i] = ch
    THEN (CHOOSE i \in 1..Len(s) : s[i] = ch /\ \A j \in 1..(i - 1) : s[j] # ch) - 1
    ELSE -1

\* Go's s[lo:hi] panics unless 0 <= lo <= hi <= len(s).
SliceInRange(s, lo, hi) == 0 <= lo /\ lo <= hi /\ hi <= Len(s)

\* Go's s[lo:hi] for an in-range pair: the characters at 0-based lo .. hi-1.
Slice(s, lo, hi) == SubSeq(s, lo + 1, hi)

RECURSIVE TrimLeft(_)
TrimLeft(s) == IF Len(s) > 0 /\ Head(s) = " " THEN TrimLeft(Tail(s)) ELSE s

RECURSIVE TrimRight(_)
TrimRight(s) ==
    IF Len(s) > 0 /\ s[Len(s)] = " " THEN TrimRight(SubSeq(s, 1, Len(s) - 1)) ELSE s

\* strings.Trim(s, " ")
Trim(s) == TrimRight(TrimLeft(s))

\* ------------------------------------------------------------ identity
Panicked == [ok |-> FALSE, container |-> <<>>, nameSpace |-> <<>>, pod |-> <<>>]

\* Lines 238-242 (and 277-281): the three slices, taken without any check of
\* at and slash; a slice out of range is a run-time panic.
ParseName(pName) ==
    LET at == Index(pName, "@")
        slash == Index(pName, "/")
    IN  IF ~SliceInRange(pName, 0, at) THEN Panicked
        ELSE IF ~SliceInRange(pName, at + 1, slash) THEN Panicked
        ELSE IF ~SliceInRange(pName, slash + 1, Len(pName) - 1) THEN Panicked
        ELSE [ok |-> TRUE,
              container |-> Slice(pName, 0, at),
              nameSpace |-> Slice(pName, at + 1, slash),
              pod |-> Trim(Slice(pName, slash + 1, Len(pName) - 1))]

\* ------------------------------------------------------------ merge
ZeroUtil(pid) == [pid |-> pid, dec |-> 0, enc |-> 0, mem |-> 0, sm |-> 0]

\* Lines 259-266: one utilization entry copied into every storage slot of its pid.
Overwrite(storage, u) ==
    [k \in 1..Len(storage) |->
        IF storage[k].pid = u.pid
        THEN [pid |-> storage[k].pid, dec |-> u.dec, enc |-> u.enc,
              mem |-> u.mem, sm |-> u.sm]
        ELSE storage[k]]

\* Lines 257-268: the utilization entries in order, pid 0 skipped.
RECURSIVE ApplyUtil(_, _, _)
ApplyUtil(storage, util, j) ==
    IF j > Len(util) THEN storage
    ELSE ApplyUtil(IF util[j].pid # 0 THEN Overwrite(storage, util[j]) ELSE storage,
                   util, j + 1)

\* A merge that pairs the two lists by position instead of by pid.
MergePositional(pids, util) ==
    [k \in 1..Len(pids) |->
        IF k <= Len(util) /\ util[k].pid # 0
        THEN [pid |-> pids[k], dec |-> util[k].dec, enc |-> util[k].enc,
              mem |-> util[k].mem, sm |-> util[k].sm]
        ELSE ZeroUtil(pids[k])]

\* Lines 253-268: one zeroed slot per memory-list pid, then the overwrites.
Merge(pids, util) ==
    ApplyUtil([k \in 1..Len(pids) |-> ZeroUtil(pids[k])], util, 1)

\* ------------------------------------------------------------ inputs
\* Sequences over S of length at most n.
SeqsUpTo(S, n) == UNION {[1..m -> S] : m \in 0..n}

\* Utilization readings the driver reports for a process.
UtilReadings == {<<5, 6, 7, 8>>, <<1, 2, 3, 4>>}

\* Utilization entries: pid 0 is the driver's empty slot, maxPid + 1 a process
\* that holds no graphics context.
UtilRecords(maxPid, readings) ==
    {[pid |-> p, dec |-> r[1], enc |-> r[2], mem |-> r[3], sm |-> r[4]] :
        p \in 0..(maxPid + 1), r \in readings}

\* The pids of the list of graphics processes: whatever the driver returns,
\* a pid listed twice included; pid 0 is no process.
PidLists(maxPid, maxLen) == SeqsUpTo(1..maxPid, maxLen)

NameChars == {"a", "@", "/", " "}

\* Display names the OS reports: two that follow the convention
\* "<container>@<namespace>/<pod> " and one that does not.
NameA == <<"a", "@", "n", "/", "p", " ">>
NameB == <<"b", "@", "m", "/", "q", " ">>
NameBad == <<"x">>

\* The names on a node whose processes all belong to one workload, and on a
\* node where a pid may pass from one workload to another.
OneWorkload == {NameA, NameBad}
TwoWorkloads == {NameA, NameB, NameBad}

\* A node: the display names of its processes, and how many devices, how many
\* graphics processes per device and how many utilization entries per device
\* the driver may report on it.
Node == [names |-> OneWorkload, devices |-> MaxDevices, procs |-> MaxProcs, utils |-> MaxUtilLen]
ReuseNode == [Node EXCEPT !.names = TwoWorkloads]

\* A node with one device fewer, one graphics process and one utilization
\* entry per device.
SmallNode == [names |-> OneWorkload, devices |-> MaxDevices - 1, procs |-> 1, utils |-> 1]

\* ps.FindProcess returns (process, error): (nil, error), no such process
\* (nil, nil), a process with no error, or a process together with an error.
LookupResults(names) ==
    {[kind |-> "err", name |-> <<>>], [kind |-> "notfound", name |-> <<>>]}
        \cup {[kind |-> "found", name |-> nm] : nm \in names}
        \cup {[kind |-> "founderr", name |-> nm] : nm \in names}

\* Whether the lookup gave a nil process, and whether it gave an error.
NilProcess(r) == r.kind \in {"err", "notfound"}
LookupError(r) == r.kind \in {"err", "founderr"}

\* nvml.NewDevice(i): an error, or a handle whose static attributes (Minor,
\* Model, Memory) are all there or not.
HandleResults ==
    {[err |-> TRUE, attrs |-> FALSE], [err |-> FALSE, attrs |-> FALSE],
     [err |-> FALSE, attrs |-> TRUE]}

\* nvml.GetDeviceCount
CountResults(node) ==
    {[err |-> TRUE, n |-> 0]} \cup {[err |-> FALSE, n |-> n] : n \in 0..node.devices}

\* dev.Status(): no status at all, or a status whose fields (in the order the
\* code reads them) are each a value or a nil pointer.
StatusFields == <<"usedMemory", "dutyCycle", "powerUsage", "temperature", "encUtil", "decUtil">>
StatusResults ==
    {[ok |-> FALSE, avail |-> {}]} \cup {[ok |-> TRUE, avail |-> a] : a \in SUBSET (1..6)}

\* dev.GetGraphicsRunningProcesses(): the pids and, by position, their memory.
ProcResults(node) ==
    {[err |-> TRUE, pids |-> <<>>, mem |-> <<>>]}
        \cup {[err |-> FALSE, pids |-> s, mem |-> [k \in 1..Len(s) |-> 100]] :
                s \in PidLists(node.procs, node.procs)}

\* dev.GetProcessUtilization()
UtilResults(node) ==
    {[err |-> TRUE, util |-> <<>>]}
        \cup {[err |-> FALSE, util |-> u] :
                u \in SeqsUpTo(UtilRecords(node.procs, {<<5, 6, 7, 8>>}), node.utils)}

\* ------------------------------------------------------------ gauges
DevGauges == {"usedMemory", "totalMemory", "dutyCycle", "powerUsage", "temperature",
              "encUtil", "decUtil"}
ProcGauges == {"pUsedMemory", "pDecUtil", "pEncUtil", "pMemUtil", "pSmUtil"}
UtilGauges == {"pDecUtil", "pEncUtil", "pMemUtil", "pSmUtil"}
AllGauges == DevGauges \cup ProcGauges

\* Lines 289-298: the vectors sent at the end of a pass (encUtil and decUtil are not).
SentGauges == {"usedMemory", "totalMemory", "dutyCycle", "powerUsage", "temperature",
               "pUsedMemory", "pDecUtil", "pEncUtil", "pMemUtil", "pSmUtil"}

\* A vector is a set of <<labels, value>> with one value per label tuple.
\* WithLabelValues(labels).Set(v)
SetGauge(g, w) ==
    [g EXCEPT ![w[1]] = {e \in @ : e[1] # w[2]} \cup {<<w[2], w[3]>>}]

\* A run of Set calls <<vector, labels, value>>, in order.
RECURSIVE SetAll(_, _)
SetAll(g, ws) == IF ws = <<>> THEN g ELSE SetAll(SetGauge(g, Head(ws)), Tail(ws))

\* A Collect that forgets to reset the per-process vectors.
ResetDeviceVecsOnly(g) == [nm \in AllGauges |-> IF nm \in DevGauges THEN {} ELSE g[nm]]

\* Lines 177-188: Reset() of all twelve vectors.
ResetVecs(g) == [nm \in AllGauges |-> {}]

\* Lines 289-298: every entry of the sent vectors, as <<vector, labels, value>>.
CollectVecs(g) == UNION {{<<nm, e[1], e[2]>> : e \in g[nm]} : nm \in SentGauges}

\* Line 196: what a caller's channel holds of the numDevices gauge. The gauge
\* itself is sent, not its value: "sent" is the gauge on the channel, set to n
\* by the pass that sent it and not yet read by the scrape.
NoSample == [state |-> "none", n |-> 0]
NumDevicesSample(n) == [state |-> "sent", n |-> n]

\* nvml.NewDevice(i): the static attributes of device i.
Device(i) == [minor |-> i, uuid |-> i, model |-> "gpu", memory |-> 1000 * (i + 1)]

\* Lines 206-208: labels of the per-device vectors.
DevLabels(i) == <<Device(i).minor, Device(i).uuid, Device(i).model>>

\* Lines 243, 282-285: labels of the per-process vectors.
ProcLabels(i, id) == <<Device(i).minor, id.pod, id.container, id.nameSpace>>

\* Lines 216-224: the fields dereferenced in order. Each statement is
\* vec.WithLabelValues(..).Set(float64(*field)): the call that makes the series
\* comes before the dereference, so the statement of the first nil pointer
\* leaves its series at zero and the statements before it have set theirs.
FirstMissing(st) ==
    IF ~st.ok THEN 1
    ELSE IF \E f \in 1..6 : f \notin st.avail
         THEN CHOOSE f \in 1..6 : f \notin st.avail /\ \A h \in 1..(f - 1) : h \in st.avail
         ELSE 7
StatusWrites(i, st) ==
    [f \in 1..(IF FirstMissing(st) <= 6 THEN FirstMissing(st) ELSE 6) |->
        <<StatusFields[f], DevLabels(i), IF f < FirstMissing(st) THEN 10 * f + i ELSE 0>>]

\* Lines 282-285
UtilWrites(i, id, s) ==
    << <<"pDecUtil", ProcLabels(i, id), s.dec>>, <<"pEncUtil", ProcLabels(i, id), s.enc>>,
       <<"pMemUtil", ProcLabels(i, id), s.mem>>, <<"pSmUtil", ProcLabels(i, id), s.sm>> >>

VARIABLES
    mutex,      \* the caller holding the collector's lock, 0 when free
    pc,         \* each caller's place in Collect
    loc,        \* each caller's locals: numDevices, i, pids, mem, storage, loop index
    hist,       \* what each caller's pass has done so far
    numDevices, \* the numDevices gauge
    gauge,      \* the twelve gauge vectors
    ch,         \* the vector entries each caller's pass has sent on its channel
    sample,     \* the numDevices gauge on each caller's channel
    alive,      \* "up", or what the serving process is dying or has died of
    exited,     \* the serving process is gone
    arg,        \* the input of the function applied alone
    res         \* its result, <<>> before it is applied

mainVars == <<mutex, pc, loc, hist, numDevices, gauge, ch, sample, alive, exited>>
vars == <<mutex, pc, loc, hist, numDevices, gauge, ch, sample, alive, exited, arg, res>>

\* ------------------------------------------------------------ the collector
NoLocals == [n |-> 0, i |-> 0, pids |-> <<>>, mem |-> <<>>, storage |-> <<>>, k |-> 0]

\* What a pass has done: the calls it made into the driver (<<call, index>>),
\* the reads that failed, the series it set, the identity it resolved at
\* each of the two lookups (<<index, position, lookup, labels>>), and whether
\* a vector still held entries when the pass took the lock. The handle
\* failures stay on record until the scrape that made the pass has ended.
NoHistory ==
    [countErr |-> FALSE, handleErr |-> {}, memErr |-> {}, utilErr |-> {},
     calls |-> {}, written |-> {}, idents |-> {}, stale |-> FALSE]

InitCollector ==
    /\ mutex = 0
    /\ pc = [c \in Callers |-> "lock"]
    /\ loc = [c \in Callers |-> NoLocals]
    /\ hist = [c \in Callers |-> NoHistory]
    /\ numDevices = 0
    /\ gauge = [nm \in AllGauges |-> {}]
    /\ ch = [c \in Callers |-> {}]
    /\ sample = [c \in Callers |-> NoSample]
    /\ alive = "up"
    /\ exited = FALSE

Init ==
    /\ InitCollector
    /\ arg = <<>>
    /\ res = <<>>

\* A lock that lets every caller in.
MutexAlwaysFree == TRUE

\* Line 174: c.Lock() returns only when no caller holds the lock.
MutexFree == mutex = 0

\* The end of a device's iteration: i++ and the loop test of line 199.
Continue(l) ==
    [pc |-> IF l.i + 1 < l.n THEN "device" ELSE "collect",
     loc |-> [NoLocals EXCEPT !.n = l.n, !.i = l.i + 1]]

\* Lines 201-204: the handle failure is logged and the loop continues.
AfterHandleError(l) == Continue(l)

\* Lines 227-229
AfterMemError(l) == Continue(l)

\* A utilization failure that is only logged: the pass goes on to the second
\* loop with the utilization of every process left at zero.
AfterUtilErrorFallThrough(l) ==
    IF Len(l.pids) = 0 THEN Continue(l)
    ELSE [pc |-> "utilloop", loc |-> [l EXCEPT !.storage = Merge(l.pids, <<>>), !.k = 1]]

\* Lines 249-251
AfterUtilError(l) == Continue(l)

\* A count failure that still sends the numDevices gauge.
CountErrorSendsGauge(nd) == NumDevicesSample(nd)

\* Lines 191-193: on a count failure Collect returns having sent nothing.
CountErrorSends(nd) == NoSample

Step(c, next) ==
    /\ pc' = [pc EXCEPT ![c] = next.pc]
    /\ loc' = [loc EXCEPT ![c] = next.loc]

Called(c, call) == [hist[c] EXCEPT !.calls = @ \cup {<<call, loc[c].i>>}]

\* The pass's own record of its Set calls: per series, the value set last.
RECURSIVE Wrote(_, _)
Wrote(h, ws) ==
    IF ws = <<>> THEN h
    ELSE Wrote([h EXCEPT !.written =
                    {e \in @ : ~(e[1] = Head(ws)[1] /\ e[2] = Head(ws)[2])} \cup {Head(ws)}],
               Tail(ws))

\* An unrecovered panic in Collect: the goroutine unwinds, the deferred Unlock
\* of line 175 releases the lock, and the call with its locals and channel is
\* over; the process is still there until the runtime ends it, and the
\* caller's next scrape may call Collect meanwhile.
Panic(c, how) ==
    /\ mutex' = 0
    /\ pc' = [pc EXCEPT ![c] = "lock"]
    /\ loc' = [loc EXCEPT ![c] = NoLocals]
    /\ hist' = [hist EXCEPT ![c] = NoHistory]
    /\ ch' = [ch EXCEPT ![c] = {}]
    /\ sample' = [sample EXCEPT ![c] = NoSample]
    /\ alive' = IF alive = "up" THEN how ELSE alive
    /\ UNCHANGED <<numDevices, exited>>

\* The process is gone, and the collector, its callers and their channels
\* with it.
Gone ==
    /\ exited' = TRUE
    /\ mutex' = 0
    /\ pc' = [c \in Callers |-> "lock"]
    /\ loc' = [c \in Callers |-> NoLocals]
    /\ hist' = [c \in Callers |-> NoHistory]
    /\ numDevices' = 0
    /\ gauge' = [nm \in AllGauges |-> {}]
    /\ ch' = [c \in Callers |-> {}]
    /\ sample' = [c \in Callers |-> NoSample]

\* Lines 236, 273: os.Exit(-1) ends the process at once; no deferred call runs.
OsExit(how) ==
    /\ Gone
    /\ alive' = IF alive = "up" THEN how ELSE alive

\* The runtime ends the process once a panicking goroutine has unwound.
Crash ==
    /\ ~exited
    /\ alive # "up"
    /\ Gone
    /\ UNCHANGED <<alive, arg, res>>

\* Line 174: every caller is a scrape that has called Collect and waits here.
Lock(c) ==
    /\ ~exited
    /\ pc[c] = "lock"
    /\ MutexFree
    /\ mutex' = c
    /\ pc' = [pc EXCEPT ![c] = "reset"]
    /\ hist' = [hist EXCEPT ![c] = [NoHistory EXCEPT !.stale = \E nm \in AllGauges : gauge[nm] # {}]]
    /\ UNCHANGED <<loc, numDevices, gauge, ch, sample, alive, exited, arg, res>>

\* Lines 177-188
Reset(c) ==
    /\ ~exited
    /\ pc[c] = "reset"
    /\ gauge' = ResetVecs(gauge)
    /\ pc' = [pc EXCEPT ![c] = "count"]
    /\ UNCHANGED <<mutex, loc, hist, numDevices, ch, sample, alive, exited, arg, res>>

\* Lines 190-197: on success the gauge is set and the gauge itself is sent.
GetDeviceCount(c, node) ==
    /\ ~exited
    /\ pc[c] = "count"
    /\ \E r \in CountResults(node) :
        IF r.err
        THEN /\ pc' = [pc EXCEPT ![c] = "return"]
             /\ hist' = [hist EXCEPT ![c].countErr = TRUE]
             /\ sample' = [sample EXCEPT ![c] = CountErrorSends(numDevices)]
             /\ UNCHANGED <<loc, numDevices>>
        ELSE /\ numDevices' = r.n
             /\ sample' = [sample EXCEPT ![c] = NumDevicesSample(r.n)]
             /\ pc' = [pc EXCEPT ![c] = IF 0 < r.n THEN "device" ELSE "collect"]
             /\ loc' = [loc EXCEPT ![c] = [NoLocals EXCEPT !.n = r.n]]
             /\ UNCHANGED hist
    /\ UNCHANGED <<mutex, gauge, ch, alive, exited, arg, res>>

\* Lines 200-212: a handle failure skips the device; the static attributes of
\* a handle are dereferenced unchecked before anything is set.
NewDevice(c) ==
    /\ ~exited
    /\ pc[c] = "device"
    /\ \E r \in HandleResults :
        IF r.err
        THEN /\ Step(c, AfterHandleError(loc[c]))
             /\ hist' = [hist EXCEPT ![c] = [Called(c, "handle") EXCEPT !.handleErr = @ \cup {loc[c].i}]]
             /\ UNCHANGED <<mutex, numDevices, gauge, ch, sample, alive, exited>>
        ELSE IF ~r.attrs
        THEN Panic(c, "attribute-panic") /\ UNCHANGED gauge
        ELSE LET ws == << <<"totalMemory", DevLabels(loc[c].i), Device(loc[c].i).memory>> >>
             IN  /\ gauge' = SetAll(gauge, ws)
                 /\ hist' = [hist EXCEPT ![c] = Wrote(Called(c, "handle"), ws)]
                 /\ pc' = [pc EXCEPT ![c] = "status"]
                 /\ UNCHANGED <<mutex, loc, numDevices, ch, sample, alive, exited>>
    /\ UNCHANGED <<arg, res>>

\* Lines 214-224: the error of Status() is dropped and every field dereferenced.
Status(c) ==
    /\ ~exited
    /\ pc[c] = "status"
    /\ \E st \in StatusResults :
        LET ws == StatusWrites(loc[c].i, st)
        IN  /\ gauge' = SetAll(gauge, ws)
            /\ IF FirstMissing(st) <= 6
               THEN Panic(c, "status-panic")
               ELSE /\ hist' = [hist EXCEPT ![c] = Wrote(Called(c, "status"), ws)]
                    /\ pc' = [pc EXCEPT ![c] = "procs"]
                    /\ UNCHANGED <<mutex, loc, numDevices, ch, sample, alive, exited>>
    /\ UNCHANGED <<arg, res>>

\* Lines 226-231
GetGraphicsRunningProcesses(c, node) ==
    /\ ~exited
    /\ pc[c] = "procs"
    /\ \E r \in ProcResults(node) :
        IF r.err
        THEN /\ Step(c, AfterMemError(loc[c]))
             /\ hist' = [hist EXCEPT ![c] = [Called(c, "procs") EXCEPT !.memErr = @ \cup {loc[c].i}]]
        ELSE /\ loc' = [loc EXCEPT ![c] = [loc[c] EXCEPT !.pids = r.pids, !.mem = r.mem, !.k = 1]]
             /\ pc' = [pc EXCEPT ![c] = IF Len(r.pids) > 0 THEN "memloop" ELSE "util"]
             /\ hist' = [hist EXCEPT ![c] = Called(c, "procs")]
    /\ UNCHANGED <<mutex, numDevices, gauge, ch, sample, alive, exited, arg, res>>

\* Lines 231-244, one iteration: p.Executable() is called before err is looked
\* at, so a nil process is a nil dereference whatever err is; an error that
\* comes with a process exits.
MemLoop(c, names) ==
    /\ ~exited
    /\ pc[c] = "memloop"
    /\ \E r \in LookupResults(names) :
        LET l == loc[c]
            id == ParseName(r.name)
            ws == << <<"pUsedMemory", ProcLabels(l.i, id), l.mem[l.k]>> >>
        IN  IF NilProcess(r)
            THEN Panic(c, "lookup-panic") /\ UNCHANGED gauge
            ELSE IF LookupError(r)
            THEN OsExit("lookup-exit")
            ELSE IF ~id.ok
            THEN Panic(c, "parse-panic") /\ UNCHANGED gauge
            ELSE /\ gauge' = SetAll(gauge, ws)
                 /\ hist' = [hist EXCEPT ![c] =
                        [Wrote(@, ws) EXCEPT !.idents = @ \cup {<<l.i, l.k, 1, ProcLabels(l.i, id)>>}]]
                 /\ loc' = [loc EXCEPT ![c].k = l.k + 1]
                 /\ pc' = [pc EXCEPT ![c] = IF l.k < Len(l.pids) THEN "memloop" ELSE "util"]
                 /\ UNCHANGED <<mutex, numDevices, ch, sample, alive, exited>>
    /\ UNCHANGED <<arg, res>>

\* Lines 248-268
GetProcessUtilization(c, node) ==
    /\ ~exited
    /\ pc[c] = "util"
    /\ \E r \in UtilResults(node) :
        IF r.err
        THEN /\ Step(c, AfterUtilError(loc[c]))
             /\ hist' = [hist EXCEPT ![c] = [Called(c, "util") EXCEPT !.utilErr = @ \cup {loc[c].i}]]
        ELSE /\ IF Len(loc[c].pids) > 0
                THEN /\ loc' = [loc EXCEPT ![c] = [loc[c] EXCEPT !.storage = Merge(loc[c].pids, r.util), !.k = 1]]
                     /\ pc' = [pc EXCEPT ![c] = "utilloop"]
                ELSE Step(c, Continue(loc[c]))
             /\ hist' = [hist EXCEPT ![c] = Called(c, "util")]
    /\ UNCHANGED <<mutex, numDevices, gauge, ch, sample, alive, exited, arg, res>>

\* Lines 269-286, one iteration: err is looked at first, so any error exits;
\* a missing process (nil, nil) is a nil dereference.
UtilLoop(c, names) ==
    /\ ~exited
    /\ pc[c] = "utilloop"
    /\ \E r \in LookupResults(names) :
        LET l == loc[c]
            id == ParseName(r.name)
            ws == UtilWrites(l.i, id, l.storage[l.k])
        IN  IF LookupError(r)
            THEN OsExit("lookup-exit")
            ELSE IF NilProcess(r)
            THEN Panic(c, "lookup-panic") /\ UNCHANGED gauge
            ELSE IF ~id.ok
            THEN Panic(c, "parse-panic") /\ UNCHANGED gauge
            ELSE /\ gauge' = SetAll(gauge, ws)
                 /\ hist' = [hist EXCEPT ![c] =
                        [Wrote(@, ws) EXCEPT !.idents = @ \cup {<<l.i, l.k, 2, ProcLabels(l.i, id)>>}]]
                 /\ IF l.k < Len(l.storage)
                    THEN /\ loc' = [loc EXCEPT ![c].k = l.k + 1]
                         /\ UNCHANGED pc
                    ELSE Step(c, Continue(l))
                 /\ UNCHANGED <<mutex, numDevices, ch, sample, alive, exited>>
    /\ UNCHANGED <<arg, res>>

\* Lines 289-298
Collect(c) ==
    /\ ~exited
    /\ pc[c] = "collect"
    /\ ch' = [ch EXCEPT ![c] = @ \cup CollectVecs(gauge)]
    /\ pc' = [pc EXCEPT ![c] = "return"]
    /\ UNCHANGED <<mutex, loc, hist, numDevices, gauge, sample, alive, exited, arg, res>>

\* Line 175: the deferred Unlock as Collect returns; the locals and the record
\* of the pass end with the call. The entries of the vectors are on the
\* channel, and no later pass sets them: a Reset drops them from their vector.
\* The numDevices gauge on the channel stays the collector's one gauge, and
\* the scrape is over only when it has been read.
Return(c) ==
    /\ ~exited
    /\ pc[c] = "return"
    /\ mutex' = 0
    /\ pc' = [pc EXCEPT ![c] = IF sample[c].state = "sent" THEN "gather" ELSE "lock"]
    /\ loc' = [loc EXCEPT ![c] = NoLocals]
    /\ hist' = [hist EXCEPT ![c] =
            IF sample[c].state = "sent"
            THEN [NoHistory EXCEPT !.handleErr = hist[c].handleErr]
            ELSE NoHistory]
    /\ ch' = [ch EXCEPT ![c] = {}]
    /\ UNCHANGED <<numDevices, gauge, sample, alive, exited, arg, res>>

\* Line 196, at the other end of the channel: the scrape reads the value the
\* gauge holds now and ends; the caller's next scrape calls Collect again. A
\* read made while the pass still ran finds what this step finds when it
\* comes before the next pass's count: the value the pass has set.
Write(c) ==
    /\ ~exited
    /\ pc[c] = "gather"
    /\ pc' = [pc EXCEPT ![c] = "lock"]
    /\ sample' = [sample EXCEPT ![c] = NoSample]
    /\ hist' = [hist EXCEPT ![c] = NoHistory]
    /\ UNCHANGED <<mutex, loc, numDevices, gauge, ch, alive, exited, arg, res>>

Pass(c, node) ==
    \/ Lock(c)
    \/ Reset(c)
    \/ GetDeviceCount(c, node)
    \/ NewDevice(c)
    \/ Status(c)
    \/ GetGraphicsRunningProcesses(c, node)
    \/ MemLoop(c, node.names)
    \/ GetProcessUtilization(c, node)
    \/ UtilLoop(c, node.names)
    \/ Collect(c)
    \/ Return(c)
    \/ Write(c)

\* One scraper: each scrape begins after the one before it has ended.
Next ==
    \/ Pass(1, Node)
    \/ Crash

Spec == Init /\ [][Next]_vars

\* One scraper on a node where pids pass between workloads.
NextReuse ==
    \/ Pass(1, ReuseNode)
    \/ Crash

SpecReuse == Init /\ [][NextReuse]_vars

\* Several scrapers, whose scrapes overlap, on the node of the one scraper.
NextOverlap ==
    \/ \E c \in Callers : Pass(c, Node)
    \/ Crash

SpecOverlap == Init /\ [][NextOverlap]_vars

\* Several scrapers, whose scrapes overlap, on the small node.
NextConcurrent ==
    \/ \E c \in Callers : Pass(c, SmallNode)
    \/ Crash

SpecConcurrent == Init /\ [][NextConcurrent]_vars

\* ------------------------------------------------------------ the parse alone
InitParse ==
    /\ InitCollector
    /\ arg \in SeqsUpTo(NameChars, MaxNameLen)
    /\ res = <<>>

Resolve ==
    /\ res = <<>>
    /\ res' = <<ParseName(arg)>>
    /\ UNCHANGED <<arg, mainVars>>

NextParse == Resolve

SpecParse == InitParse /\ [][NextParse]_vars

\* ------------------------------------------------------------ the merge alone
InitMerge ==
    /\ InitCollector
    /\ arg \in [pids : PidLists(MergeMaxPid, MergeMaxMem),
                util : SeqsUpTo(UtilRecords(MergeMaxPid, UtilReadings), MergeMaxUtil)]
    /\ res = <<>>

DoMerge ==
    /\ res = <<>>
    /\ res' = <<Merge(arg.pids, arg.util)>>
    /\ UNCHANGED <<arg, mainVars>>

NextMerge == DoMerge

SpecMerge == InitMerge /\ [][NextMerge]_vars

\* ------------------------------------------------------------ properties
\* The entries a pass has sent for the device of minor number i.
EntriesOf(c, i) == {e \in ch[c] : e[2][1] = i}

Sent(c, nm, labels) == \E e \in ch[c] : e[1] = nm /\ e[2] = labels

\* Every per-device vector that is sent holds an entry for device i.
DeviceSampled(c, i) == \A nm \in DevGauges \cap SentGauges : Sent(c, nm, DevLabels(i))

\* Every identity the pass resolved for a process of device i is the label of
\* an entry sent: the used memory for the first lookup, the four utilizations
\* for the second.
ProcessesSampled(c, i) ==
    \A id \in hist[c].idents :
        id[1] = i =>
            IF id[3] = 1 THEN Sent(c, "pUsedMemory", id[4])
            ELSE \A nm \in UtilGauges : Sent(c, nm, id[4])

\* A caller between c.Lock() and the deferred c.Unlock(): not waiting for the
\* lock, and neither returned nor unwound by a panic.
InPass(c) == pc[c] \notin {"lock", "gather"}

\* C1: at most one caller is between c.Lock() and the deferred c.Unlock() at
\* any time, and that caller is the one holding the lock; so no call into the
\* driver and no reset or update of a gauge of one pass falls between those of
\* another, and a waiting caller enters only once the lock has been released.
C1_OnePassAtATime ==
    /\ \A c1, c2 \in Callers : (InPass(c1) /\ InPass(c2)) => c1 = c2
    /\ \A c \in Callers : InPass(c) <=> mutex = c

\* A caller waits at the lock while another is in the middle of its pass, with
\* per-process entries already written.
C1_Witness ==
    \E c1, c2 \in Callers :
        /\ c1 # c2
        /\ pc[c1] = "utilloop"
        /\ pc[c2] = "lock"
        /\ gauge["pUsedMemory"] # {}

\* A pass over n devices in which the handle of some index failed and the
\* handle of another was obtained.
HandleFailedForSome(c, n) ==
    /\ hist[c].handleErr # {}
    /\ \E j \in 0..(n - 1) : j \notin hist[c].handleErr

\* C2: a pass over N devices in which the handle of some index failed and
\* that of another did not sends nothing for a failed index, sends the device
\* entries and the resolved process entries of every other index, and the
\* numDevices its scrape reads is N.
C2_HandleFailureSkipsOnlyThatDevice ==
    [][\A c \in Callers :
        /\ (pc[c] = "return" /\ HandleFailedForSome(c, loc[c].n)) =>
                \A i \in 0..(loc[c].n - 1) :
                    IF i \in hist[c].handleErr
                    THEN EntriesOf(c, i) = {}
                    ELSE DeviceSampled(c, i) /\ ProcessesSampled(c, i)
        /\ (pc[c] = "gather" /\ pc'[c] = "lock" /\ HandleFailedForSome(c, sample[c].n)) =>
                numDevices = sample[c].n]_vars

\* C3 as stated: after a failed count the pass has sent numDevices with the
\* value 0, no device or process entry, and has made no per-device call.
C3_CountFailureReportsZero ==
    \A c \in Callers :
        (pc[c] = "return" /\ hist[c].countErr) =>
            /\ sample[c] = NumDevicesSample(0)
            /\ numDevices = 0
            /\ ch[c] = {}
            /\ hist[c].calls = {}

\* C3 as amended: a pass does not set the numDevices gauge on its way to a
\* failed count (lock, reset, count), so the gauge keeps the value it had; and
\* after the failed count the pass has sent nothing at all (not the numDevices
\* gauge, no device or process entry), every vector is empty, and no
\* per-device call was made.
C3_CountFailureSendsNothing ==
    [][\A c \in Callers :
        /\ (pc[c] \in {"lock", "reset", "count"} /\ pc'[c] \in {"reset", "count", "return"}) =>
                numDevices' = numDevices
        /\ (pc[c] = "return" /\ hist[c].countErr) =>
                /\ sample[c] = NoSample
                /\ ch[c] = {}
                /\ \A nm \in AllGauges : gauge[nm] = {}
                /\ hist[c].calls = {}]_vars

\* A count failure in a pass that found entries of an earlier pass in the
\* vectors, with the numDevices gauge still at that pass's count.
C3_Witness ==
    \E c \in Callers :
        /\ pc[c] = "return"
        /\ hist[c].countErr
        /\ hist[c].stale
        /\ numDevices > 0

\* C4: a process lookup that fails or finds no process never takes the
\* serving process down, by a panic or by an exit.
C4_LookupFailureNeverTerminates == alive \notin {"lookup-panic", "lookup-exit"}

\* A display name that lacks "@", lacks "/", or has its first "/" before its
\* first "@".
Malformed(name) ==
    \/ Index(name, "@") = -1
    \/ Index(name, "/") = -1
    \/ Index(name, "/") < Index(name, "@")

\* C5: resolving a malformed display name never takes a slice out of range.
C5_MalformedNameNeverPanics ==
    (res # <<>> /\ Malformed(arg)) => res[1] # Panicked

\* The utilization entries of pid p, by position.
Matches(util, p) == {j \in 1..Len(util) : util[j].pid = p /\ util[j].pid # 0}

\* The utilization a merged record must carry: the values of the matching
\* entry of non-zero pid (the last one, when the driver repeats a pid), zeros
\* when there is none.
CarriesItsUtilization(r, util) ==
    IF Matches(util, r.pid) = {}
    THEN r = ZeroUtil(r.pid)
    ELSE LET j == CHOOSE j \in Matches(util, r.pid) : \A h \in Matches(util, r.pid) : h <= j
         IN  /\ r.dec = util[j].dec
             /\ r.enc = util[j].enc
             /\ r.mem = util[j].mem
             /\ r.sm = util[j].sm

\* No record has the pid of a utilization entry that is pid 0 or absent from
\* the memory list.
NoRecordFromUtilOnly(out, pids, util) ==
    \A j \in 1..Len(util) :
        (util[j].pid = 0 \/ \A k \in 1..Len(pids) : pids[k] # util[j].pid) =>
            \A k \in 1..Len(out) : out[k].pid # util[j].pid

\* C6 as stated: the merge gives exactly one record per distinct pid of the
\* memory list, in its order; each record carries its utilization, and no
\* record comes from a pid-0 entry or from a pid absent from the memory list.
C6_OneRecordPerDistinctPid ==
    res # <<>> =>
        /\ Len(res[1]) = Cardinality({arg.pids[k] : k \in 1..Len(arg.pids)})
        /\ \A k \in 1..Len(res[1]) :
            res[1][k].pid = arg.pids[k] /\ CarriesItsUtilization(res[1][k], arg.util)
        /\ NoRecordFromUtilOnly(res[1], arg.pids, arg.util)

\* C6 as amended: the merge gives exactly one record per entry of the memory
\* list, in its order (a pid the list repeats gets a record per occurrence);
\* each record carries its utilization, and no record comes from a pid-0
\* entry or from a pid absent from the memory list.
C6_MergeByPid ==
    res # <<>> =>
        /\ Len(res[1]) = Len(arg.pids)
        /\ \A k \in 1..Len(res[1]) :
            res[1][k].pid = arg.pids[k] /\ CarriesItsUtilization(res[1][k], arg.util)
        /\ NoRecordFromUtilOnly(res[1], arg.pids, arg.util)

\* The merge of the memory pids 1, 2 with a utilization list that holds pid 2
\* first and the pid-0 slot second: pid 1 keeps zeros, pid 2 gets its values.
C6_Witness ==
    /\ res # <<>>
    /\ arg.pids = <<1, 2>>
    /\ Len(arg.util) = 2
    /\ arg.util[1].pid = 2
    /\ arg.util[2].pid = 0
    /\ res[1][1] = ZeroUtil(1)
    /\ res[1][2].dec = arg.util[1].dec
    /\ res[1][2].sm = arg.util[1].sm

ProcessEntries(c, i, vecs) == {e \in EntriesOf(c, i) : e[1] \in vecs}

\* C7 as stated: a device whose memory list or utilization list could not be
\* read has no per-process entry sent, and its device entries are sent.
C7_NoProcessMetricOnEitherFailure ==
    \A c \in Callers :
        pc[c] = "return" =>
            \A i \in hist[c].memErr \cup hist[c].utilErr :
                /\ ProcessEntries(c, i, ProcGauges) = {}
                /\ DeviceSampled(c, i)

\* C7 as amended: a failed memory list leaves the device with no per-process
\* entry; a failed utilization list leaves it with no utilization entry, but
\* the used-memory entries written by the first loop are sent; in both cases
\* the device's own entries, and the entries of every other device whose
\* handle was obtained, are sent.
C7_ProcessMetricsOnFailure ==
    \A c \in Callers :
        (pc[c] = "return" /\ ~hist[c].countErr) =>
            /\ \A i \in hist[c].memErr :
                ProcessEntries(c, i, ProcGauges) = {} /\ DeviceSampled(c, i)
            /\ \A i \in hist[c].utilErr :
                /\ ProcessEntries(c, i, UtilGauges) = {}
                /\ {e[2] : e \in ProcessEntries(c, i, {"pUsedMemory"})}
                       = {id[4] : id \in {x \in hist[c].idents : x[1] = i /\ x[3] = 1}}
                /\ DeviceSampled(c, i)
            /\ \A j \in 0..(loc[c].n - 1) :
                j \notin hist[c].handleErr => DeviceSampled(c, j) /\ ProcessesSampled(c, j)

\* A finished pass in which the utilization list of a device failed after the
\* used memory of one of its processes had been written.
C7_Witness ==
    \E c \in Callers :
        /\ pc[c] = "return"
        /\ \E i \in hist[c].utilErr : ProcessEntries(c, i, {"pUsedMemory"}) # {}
        /\ hist[c].memErr # {}

\* C8: an absent status, or an absent field of it, never ends the pass.
C8_StatusFailureOmitsOnlyTheField == alive # "status-panic"

\* C9: what a pass sends for devices and processes is exactly what that pass
\* itself has set in the vectors it sends: nothing of an earlier pass.
C9_OnlyThisPassIsSent ==
    \A c \in Callers :
        pc[c] = "return" =>
            /\ \A e \in ch[c] : e \in hist[c].written
            /\ ~hist[c].countErr =>
                \A w \in hist[c].written : w[1] \in SentGauges => w \in ch[c]

\* A pass that found entries of an earlier pass in the vectors, sampled no
\* device itself, and has sent the numDevices gauge alone.
C9_Witness ==
    \E c \in Callers :
        /\ pc[c] = "return"
        /\ hist[c].stale
        /\ ~hist[c].countErr
        /\ loc[c].n > 0
        /\ sample[c] = NumDevicesSample(loc[c].n)
        /\ ch[c] = {}

\* C10: within a pass the two lookups of a process (the same device, the
\* same position of the memory list) give the same labels.
C10_SameIdentityInBothLoops ==
    \A c \in Callers :
        pc[c] = "return" =>
            \A x, y \in hist[c].idents :
                (x[1] = y[1] /\ x[2] = y[2]) => x[4] = y[4]

====
